---- MODULE Spec2Model ----
(***************************************************************************)
(* TopMap (src/src/lib.rs): an ordered map made of a fixed-capacity ring   *)
(* buffer `top` of Option<(Key, Value)> slots, addressed by the distance   *)
(* of a key from the key held in the front slot, and a BTreeMap `rest`     *)
(* holding every other entry.  A reference BTreeMap `map1` receives the    *)
(* same operations, as in tests::matches_btree_map.                        *)
(***************************************************************************)
EXTENDS Integers, Sequences, FiniteSets, TLC

\* ------------------------------------------------------------------ bounds
MaxKey == 3
MaxValue == 2
MaxSize == 6

Keys == 0..MaxKey
Values == 1..MaxValue
Sizes == 1..MaxSize

VARIABLES
    size,       \* A::size(): the capacity of the ring buffer, fixed by the type
    top,        \* TopMap::top, front slot first
    rest,       \* TopMap::rest, a function from its keys to their values
    map1,       \* the reference BTreeMap of tests::matches_btree_map
    last,       \* the call whose results the caller holds, NoCall between calls
    panicked    \* TRUE once a call has panicked

vars == <<size, top, rest, map1, last, panicked>>

\* ------------------------------------------------------------ Option<T>
None == <<>>
Some(x) == <<x>>
IsSome(o) == o # None
Unwrap(o) == o[1]

\* A panic, as the result of a call.
Panic(msg, key) == [panic |-> msg, key |-> key]

\* ------------------------------------------------- BTreeMap<Key, Value>
BTreeNew == [k \in {} |-> 0]
BTreeGet(m, key) == IF key \in DOMAIN m THEN Some(m[key]) ELSE None
BTreeInsert(m, key, value) ==
    [k \in (DOMAIN m) \cup {key} |-> IF k = key THEN value ELSE m[k]]
BTreeRemove(m, key) == [k \in (DOMAIN m) \ {key} |-> m[k]]
\* m.iter().next(): the entry with the least key
BTreeFirst(m) ==
    IF DOMAIN m = {} THEN None
    ELSE Some(CHOOSE k \in DOMAIN m : \A j \in DOMAIN m : k <= j)
\* entry(key).or_insert(default)
BTreeOrInsert(m, key, default) ==
    IF key \in DOMAIN m THEN m ELSE BTreeInsert(m, key, default)

RECURSIVE BTreeIter(_)
BTreeIter(m) ==
    IF DOMAIN m = {} THEN <<>>
    ELSE LET k == Unwrap(BTreeFirst(m))
         IN  <<(<<k, m[k]>>)>> \o BTreeIter(BTreeRemove(m, k))

\* --------------------------------------------------- Array::min/max_size
max_size == size
min_size == size \div 2

\* ------------------------------------------ FixedVecDeque<[Option<_>; N]>
\* A push onto a full ring buffer takes the place of the slot at the other end.
PushBack(v, x) ==
    IF Len(v) >= max_size THEN Append(Tail(v), x) ELSE Append(v, x)
PushFront(v, x) ==
    IF Len(v) >= max_size THEN <<x>> \o SubSeq(v, 1, Len(v) - 1) ELSE <<x>> \o v
PopBack(v) == SubSeq(v, 1, Len(v) - 1)
PopFront(v) == Tail(v)
Back(v) == v[Len(v)]

\* isize::from(key) - isize::from(min_key); Keys lie where the difference fits in isize
KeyDistance(key, min_key) == key - min_key

\* fn positive(i: isize) -> Option<usize>
positive(i) == IF i >= 0 THEN Some(i) ELSE None

\* fn ensure_index: push None at the back until v[index] exists (index is 0-based)
RECURSIVE PushBackNone(_, _)
PushBackNone(v, count) ==
    IF count <= 0 THEN v ELSE PushBackNone(PushBack(v, None), count - 1)

ensure_index(v, index) ==
    IF index + 1 >= Len(v) THEN PushBackNone(v, (index + 1) - Len(v)) ELSE v

\* the slot of the 0-based position index
Slot(v, index) == v[index + 1]
SetSlot(v, index, x) == [v EXCEPT ![index + 1] = x]

\* a len that counts every slot of the window, empty or not
len_counts_slots(t, r) == Len(t) + Cardinality(DOMAIN r)

\* TopMap::len
len(t, r) ==
    Cardinality({p \in 1..Len(t) : IsSome(t[p])}) + Cardinality(DOMAIN r)

\* TopMap::iter: the occupied slots of top in position order, then rest in key order
RECURSIVE FilterSome(_)
FilterSome(t) ==
    IF t = <<>> THEN <<>>
    ELSE IF IsSome(Head(t)) THEN <<Unwrap(Head(t))>> \o FilterSome(Tail(t))
    ELSE FilterSome(Tail(t))

\* an iter that chains the two stores the other way round
iter_rest_first(t, r) == BTreeIter(r) \o FilterSome(t)

iter(t, r) == FilterSome(t) \o BTreeIter(r)

\* TopMap::index: the classification of a key
index(t, key) ==
    IF t = <<>> THEN [tag |-> "OutsideTop", n |-> 0]
    ELSE IF ~IsSome(t[1]) THEN [tag |-> "Panic", n |-> 0]
    ELSE LET i == KeyDistance(key, Unwrap(t[1])[1])
         IN  IF IsSome(positive(i))
             THEN IF i >= max_size THEN [tag |-> "Rest", n |-> i]
                  ELSE IF i >= Len(t) THEN [tag |-> "OutsideTop", n |-> i]
                  ELSE [tag |-> "InsideTop", n |-> i]
             ELSE [tag |-> "AboveTop", n |-> -i]

TopFilled == "top entry should be filled"

\* a drain that stops one slot short
RECURSIVE DrainBack_short(_, _, _)
DrainBack_short(t, r, count) ==
    IF count <= 1 \/ t = <<>> THEN [top |-> t, rest |-> r]
    ELSE LET e == Back(t)
         IN  DrainBack_short(PopBack(t),
                             IF IsSome(e) THEN BTreeInsert(r, Unwrap(e)[1], Unwrap(e)[2]) ELSE r,
                             count - 1)

\* pop count slots off the back of top, moving the occupied ones to rest
RECURSIVE DrainBack(_, _, _)
DrainBack(t, r, count) ==
    IF count <= 0 \/ t = <<>> THEN [top |-> t, rest |-> r]
    ELSE LET e == Back(t)
         IN  DrainBack(PopBack(t),
                       IF IsSome(e) THEN BTreeInsert(r, Unwrap(e)[1], Unwrap(e)[2]) ELSE r,
                       count - 1)

RECURSIVE PushFrontNone(_, _)
PushFrontNone(t, count) ==
    IF count <= 0 THEN t ELSE PushFrontNone(PushFront(t, None), count - 1)

\* an insert_above_top that pushes distance empty slots, one too many, before the front
insert_above_top_wide(t, r, distance) ==
    LET d == IF max_size >= distance
             THEN LET new_count == max_size - distance
                      a == IF Len(t) >= new_count
                           THEN DrainBack(t, r, Len(t) - new_count)
                           ELSE [top |-> t, rest |-> r]
                  IN  [top |-> PushFrontNone(a.top, distance), rest |-> a.rest]
             ELSE DrainBack(t, r, Len(t))
    IN  [top |-> PushFront(d.top, None), rest |-> d.rest]

\* TopMap::insert_above_top: the returned front slot is position 0 of .top
insert_above_top(t, r, distance) ==
    LET d == IF max_size >= distance
             THEN LET new_count == max_size - distance
                      a == IF Len(t) >= new_count
                           THEN DrainBack(t, r, Len(t) - new_count)
                           ELSE [top |-> t, rest |-> r]
                  IN  [top |-> PushFrontNone(a.top, distance - 1), rest |-> a.rest]
             ELSE DrainBack(t, r, Len(t))
    IN  [top |-> PushFront(d.top, None), rest |-> d.rest]

\* an entry that sends every key inside the capacity to the window, whatever rest holds
entry_no_rest_check(t, r, key) ==
    LET i == index(t, key)
    IN  CASE i.tag = "Panic" -> [kind |-> "Panic", n |-> 0, top |-> t]
          [] i.tag = "AboveTop" -> [kind |-> "AboveTop", n |-> i.n, top |-> t]
          [] i.tag = "InsideTop" -> [kind |-> "Vec", n |-> i.n, top |-> t]
          [] i.tag = "OutsideTop" ->
                [kind |-> "Vec", n |-> i.n, top |-> ensure_index(t, i.n)]
          [] i.tag = "Rest" -> [kind |-> "BTreeMap", n |-> 0, top |-> t]

\* TopMap::entry: the handle, with the map as entry leaves it
entry(t, r, key) ==
    LET i == index(t, key)
    IN  CASE i.tag = "Panic" -> [kind |-> "Panic", n |-> 0, top |-> t]
          [] i.tag = "AboveTop" -> [kind |-> "AboveTop", n |-> i.n, top |-> t]
          [] i.tag = "InsideTop" -> [kind |-> "Vec", n |-> i.n, top |-> t]
          [] i.tag = "OutsideTop" ->
                IF IsSome(BTreeFirst(r)) /\ key >= Unwrap(BTreeFirst(r))
                THEN [kind |-> "BTreeMap", n |-> 0, top |-> t]
                ELSE [kind |-> "Vec", n |-> i.n, top |-> ensure_index(t, i.n)]
          [] i.tag = "Rest" -> [kind |-> "BTreeMap", n |-> 0, top |-> t]

\* an Entry::insert that keeps the value of an occupied window slot, as or_insert does
Entry_insert_keeps(e, r, key, value) ==
    CASE e.kind = "AboveTop" ->
            LET a == insert_above_top(e.top, r, e.n)
            IN  [top |-> SetSlot(a.top, 0, Some(<<key, value>>)), rest |-> a.rest,
                 ret |-> None]
      [] e.kind = "Vec" ->
            LET old == Slot(e.top, e.n)
            IN  [top |-> IF IsSome(old) THEN e.top
                         ELSE SetSlot(e.top, e.n, Some(<<key, value>>)),
                 rest |-> r,
                 ret |-> IF IsSome(old) THEN Some(Unwrap(old)[2]) ELSE None]
      [] e.kind = "BTreeMap" ->
            [top |-> e.top, rest |-> BTreeInsert(r, key, value), ret |-> BTreeGet(r, key)]
      [] e.kind = "Panic" ->
            [top |-> e.top, rest |-> r, ret |-> Panic(TopFilled, key)]

\* Entry::insert
Entry_insert(e, r, key, value) ==
    CASE e.kind = "AboveTop" ->
            LET a == insert_above_top(e.top, r, e.n)
            IN  [top |-> SetSlot(a.top, 0, Some(<<key, value>>)), rest |-> a.rest,
                 ret |-> None]
      [] e.kind = "Vec" ->
            LET old == Slot(e.top, e.n)
            IN  [top |-> SetSlot(e.top, e.n, Some(<<key, value>>)), rest |-> r,
                 ret |-> IF IsSome(old) THEN Some(Unwrap(old)[2]) ELSE None]
      [] e.kind = "BTreeMap" ->
            [top |-> e.top, rest |-> BTreeInsert(r, key, value), ret |-> BTreeGet(r, key)]
      [] e.kind = "Panic" ->
            [top |-> e.top, rest |-> r, ret |-> Panic(TopFilled, key)]

\* an or_insert that overwrites the value of a stored key, as Entry::insert does
Entry_or_insert_overwrites(e, r, key, default) ==
    CASE e.kind = "AboveTop" ->
            LET a == insert_above_top(e.top, r, e.n)
            IN  [top |-> SetSlot(a.top, 0, Some(<<key, default>>)), rest |-> a.rest,
                 ret |-> Some(default)]
      [] e.kind = "Vec" ->
            [top |-> SetSlot(e.top, e.n, Some(<<key, default>>)), rest |-> r,
             ret |-> Some(default)]
      [] e.kind = "BTreeMap" ->
            [top |-> e.top, rest |-> BTreeInsert(r, key, default), ret |-> Some(default)]
      [] e.kind = "Panic" ->
            [top |-> e.top, rest |-> r, ret |-> Panic(TopFilled, key)]

\* Entry::or_insert: ret is the value the returned reference designates
Entry_or_insert(e, r, key, default) ==
    CASE e.kind = "AboveTop" ->
            LET a == insert_above_top(e.top, r, e.n)
            IN  [top |-> SetSlot(a.top, 0, Some(<<key, default>>)), rest |-> a.rest,
                 ret |-> Some(default)]
      [] e.kind = "Vec" ->
            LET old == Slot(e.top, e.n)
                new == IF IsSome(old) THEN old ELSE Some(<<key, default>>)
            IN  [top |-> SetSlot(e.top, e.n, new), rest |-> r,
                 ret |-> Some(Unwrap(new)[2])]
      [] e.kind = "BTreeMap" ->
            LET m == BTreeOrInsert(r, key, default)
            IN  [top |-> e.top, rest |-> m, ret |-> Some(m[key])]
      [] e.kind = "Panic" ->
            [top |-> e.top, rest |-> r, ret |-> Panic(TopFilled, key)]

\* the closure handed to or_insert_with, by what a call of it does: Some(v) when
\* it returns v, None when it panics
Closures == {Some(v) : v \in Values} \cup {None}
ClosurePanic == "the closure of or_insert_with panicked"

\* Entry::or_insert_with: the closure default is called only where the slot or
\* the rest entry is vacant, after insert_above_top has shifted the window or
\* entry has lengthened it; when it panics the call unwinds and leaves the
\* window as it was at that moment, the slot unwritten
Entry_or_insert_with(e, r, key, default) ==
    CASE e.kind = "AboveTop" ->
            LET a == insert_above_top(e.top, r, e.n)
            IN  IF IsSome(default)
                THEN [top |-> SetSlot(a.top, 0, Some(<<key, Unwrap(default)>>)),
                      rest |-> a.rest, ret |-> default]
                ELSE [top |-> a.top, rest |-> a.rest, ret |-> Panic(ClosurePanic, key)]
      [] e.kind = "Vec" ->
            LET old == Slot(e.top, e.n)
            IN  IF IsSome(old)
                THEN [top |-> e.top, rest |-> r, ret |-> Some(Unwrap(old)[2])]
                ELSE IF IsSome(default)
                THEN [top |-> SetSlot(e.top, e.n, Some(<<key, Unwrap(default)>>)),
                      rest |-> r, ret |-> default]
                ELSE [top |-> e.top, rest |-> r, ret |-> Panic(ClosurePanic, key)]
      [] e.kind = "BTreeMap" ->
            IF key \in DOMAIN r
            THEN [top |-> e.top, rest |-> r, ret |-> Some(r[key])]
            ELSE IF IsSome(default)
            THEN [top |-> e.top, rest |-> BTreeInsert(r, key, Unwrap(default)),
                  ret |-> default]
            ELSE [top |-> e.top, rest |-> r, ret |-> Panic(ClosurePanic, key)]
      [] e.kind = "Panic" ->
            [top |-> e.top, rest |-> r, ret |-> Panic(TopFilled, key)]

\* BTreeMap::entry(key).or_insert_with(default) on the reference map
BTreeOrInsertWith(m, key, default) ==
    IF key \in DOMAIN m THEN [map |-> m, ret |-> Some(m[key])]
    ELSE IF IsSome(default)
    THEN [map |-> BTreeInsert(m, key, Unwrap(default)), ret |-> default]
    ELSE [map |-> m, ret |-> Panic(ClosurePanic, key)]

\* TopMap::insert
insert(t, r, key, value) == Entry_insert(entry(t, r, key), r, key, value)

\* a get that takes a key beyond the window length to be absent
get_window_only(t, r, key) ==
    LET i == index(t, key)
    IN  CASE i.tag = "Panic" -> Panic(TopFilled, key)
          [] i.tag = "AboveTop" -> None
          [] i.tag = "InsideTop" ->
                IF IsSome(Slot(t, i.n)) THEN Some(Unwrap(Slot(t, i.n))[2]) ELSE None
          [] i.tag = "OutsideTop" -> None
          [] i.tag = "Rest" -> BTreeGet(r, key)

\* TopMap::get
get(t, r, key) ==
    LET i == index(t, key)
    IN  CASE i.tag = "Panic" -> Panic(TopFilled, key)
          [] i.tag = "AboveTop" -> None
          [] i.tag = "InsideTop" ->
                IF IsSome(Slot(t, i.n)) THEN Some(Unwrap(Slot(t, i.n))[2]) ELSE None
          [] i.tag \in {"OutsideTop", "Rest"} -> BTreeGet(r, key)

\* TopMap::get_mut
get_mut(t, r, key) ==
    LET i == index(t, key)
    IN  CASE i.tag = "Panic" -> Panic(TopFilled, key)
          [] i.tag = "AboveTop" -> None
          [] i.tag = "InsideTop" ->
                IF IsSome(Slot(t, i.n)) THEN Some(Unwrap(Slot(t, i.n))[2]) ELSE None
          [] i.tag \in {"OutsideTop", "Rest"} -> BTreeGet(r, key)

\* impl ops::Index / ops::IndexMut
NoItem == "no item with key"
\* an index that hands back the result of get without unwrapping it
Index_index_no_panic(t, r, key) == get(t, r, key)

Index_index(t, r, key) ==
    LET g == get(t, r, key)
    IN  IF g = None THEN Panic(NoItem, key) ELSE g
IndexMut_index_mut(t, r, key) ==
    LET g == get_mut(t, r, key)
    IN  IF g = None THEN Panic(NoItem, key) ELSE g

\* a front removal that never pulls an entry of rest behind the base key
Refill_none(t, r, min_top_key) == [top |-> t, rest |-> r, panic |-> FALSE]

\* the while loops of the front arm of TopMap::remove
RECURSIVE PopFrontNone(_)
PopFrontNone(t) ==
    IF t # <<>> /\ t[1] = None THEN PopFrontNone(PopFront(t)) ELSE t

RefillPanic == "everything in the rest map should have an index higher than everything in the top vec"

\* a refill that stops one offset short of min_size
RECURSIVE Refill_stops_early(_, _, _)
Refill_stops_early(t, r, min_top_key) ==
    IF ~IsSome(BTreeFirst(r)) THEN [top |-> t, rest |-> r, panic |-> FALSE]
    ELSE LET key == Unwrap(BTreeFirst(r))
             i == positive(KeyDistance(key, min_top_key))
         IN  IF ~IsSome(i) THEN [top |-> t, rest |-> r, panic |-> TRUE]
             ELSE IF Unwrap(i) + 1 >= min_size THEN [top |-> t, rest |-> r, panic |-> FALSE]
             ELSE Refill_stops_early(
                     SetSlot(ensure_index(t, Unwrap(i)), Unwrap(i), Some(<<key, r[key]>>)),
                     BTreeRemove(r, key), min_top_key)

\* a refill that pulls up to the capacity of the window
RECURSIVE Refill_to_max_size(_, _, _)
Refill_to_max_size(t, r, min_top_key) ==
    IF ~IsSome(BTreeFirst(r)) THEN [top |-> t, rest |-> r, panic |-> FALSE]
    ELSE LET key == Unwrap(BTreeFirst(r))
             i == positive(KeyDistance(key, min_top_key))
         IN  IF ~IsSome(i) THEN [top |-> t, rest |-> r, panic |-> TRUE]
             ELSE IF Unwrap(i) >= max_size THEN [top |-> t, rest |-> r, panic |-> FALSE]
             ELSE Refill_to_max_size(
                     SetSlot(ensure_index(t, Unwrap(i)), Unwrap(i), Some(<<key, r[key]>>)),
                     BTreeRemove(r, key), min_top_key)

RECURSIVE Refill(_, _, _)
Refill(t, r, min_top_key) ==
    IF ~IsSome(BTreeFirst(r)) THEN [top |-> t, rest |-> r, panic |-> FALSE]
    ELSE LET key == Unwrap(BTreeFirst(r))
             i == positive(KeyDistance(key, min_top_key))
         IN  IF ~IsSome(i) THEN [top |-> t, rest |-> r, panic |-> TRUE]
             ELSE IF Unwrap(i) >= min_size THEN [top |-> t, rest |-> r, panic |-> FALSE]
             ELSE Refill(SetSlot(ensure_index(t, Unwrap(i)), Unwrap(i), Some(<<key, r[key]>>)),
                         BTreeRemove(r, key), min_top_key)

\* a front removal that leaves an emptied window empty, whatever rest holds
remove_front_no_promote(t, r, key) ==
    LET value == Unwrap(t[1])[2]
        t1 == PopFrontNone(PopFront(t))
    IN  IF Len(t1) <= min_size /\ t1 # <<>>
        THEN LET f == Refill(t1, r, Unwrap(t1[1])[1])
             IN  [top |-> f.top, rest |-> f.rest,
                  ret |-> IF f.panic THEN Panic(RefillPanic, key) ELSE Some(value)]
        ELSE [top |-> t1, rest |-> r, ret |-> Some(value)]

\* TopMap::remove, the arm Index::InsideTop { index: 0 }
remove_front(t, r, key) ==
    LET value == Unwrap(t[1])[2]
        t1 == PopFrontNone(PopFront(t))
    IN  IF Len(t1) <= min_size
        THEN LET promote == t1 = <<>> /\ IsSome(BTreeFirst(r))
                 rest_key == Unwrap(BTreeFirst(r))
                 t2 == IF promote
                       THEN PushBack(t1, Some(<<rest_key, r[rest_key]>>))
                       ELSE t1
                 r2 == IF promote THEN BTreeRemove(r, rest_key) ELSE r
             IN  IF t2 = <<>>
                 THEN [top |-> t2, rest |-> r2, ret |-> Some(value)]
                 ELSE LET f == Refill(t2, r2, Unwrap(t2[1])[1])
                      IN  [top |-> f.top, rest |-> f.rest,
                           ret |-> IF f.panic THEN Panic(RefillPanic, key)
                                   ELSE Some(value)]
        ELSE [top |-> t1, rest |-> r, ret |-> Some(value)]

\* remove that reaches its slot the way entry does, growing the window on a miss
remove_ensure_index(t, r, key) ==
    LET i == index(t, key)
    IN  CASE i.tag = "Panic" -> [top |-> t, rest |-> r, ret |-> Panic(TopFilled, key)]
          [] i.tag = "AboveTop" -> [top |-> t, rest |-> r, ret |-> None]
          [] i.tag = "InsideTop" /\ i.n = 0 -> remove_front(t, r, key)
          [] i.tag = "InsideTop" /\ i.n # 0 ->
                LET old == Slot(t, i.n)
                IN  [top |-> SetSlot(t, i.n, None), rest |-> r,
                     ret |-> IF IsSome(old) THEN Some(Unwrap(old)[2]) ELSE None]
          [] i.tag = "OutsideTop" ->
                [top |-> ensure_index(t, i.n), rest |-> BTreeRemove(r, key),
                 ret |-> BTreeGet(r, key)]
          [] i.tag = "Rest" ->
                [top |-> t, rest |-> BTreeRemove(r, key), ret |-> BTreeGet(r, key)]

\* TopMap::remove
remove(t, r, key) ==
    LET i == index(t, key)
    IN  CASE i.tag = "Panic" -> [top |-> t, rest |-> r, ret |-> Panic(TopFilled, key)]
          [] i.tag = "AboveTop" -> [top |-> t, rest |-> r, ret |-> None]
          [] i.tag = "InsideTop" /\ i.n = 0 -> remove_front(t, r, key)
          [] i.tag = "InsideTop" /\ i.n # 0 ->
                LET old == Slot(t, i.n)
                IN  [top |-> SetSlot(t, i.n, None), rest |-> r,
                     ret |-> IF IsSome(old) THEN Some(Unwrap(old)[2]) ELSE None]
          [] i.tag \in {"OutsideTop", "Rest"} ->
                [top |-> t, rest |-> BTreeRemove(r, key), ret |-> BTreeGet(r, key)]

\* pop count slots off the front of top, moving the occupied ones to rest
RECURSIVE DrainFront(_, _, _)
DrainFront(t, r, count) ==
    IF count <= 0 \/ t = <<>> THEN [top |-> t, rest |-> r]
    ELSE LET e == t[1]
         IN  DrainFront(PopFront(t),
                        IF IsSome(e) THEN BTreeInsert(r, Unwrap(e)[1], Unwrap(e)[2]) ELSE r,
                        count - 1)

\* a shrink_to_fit that pops the front of the window instead of its back
shrink_to_fit_front(t, r) ==
    IF Len(t) > min_size THEN DrainFront(t, r, Len(t) - min_size)
    ELSE [top |-> t, rest |-> r]

\* TopMap::shrink_to_fit
shrink_to_fit(t, r) ==
    IF Len(t) > min_size THEN DrainBack(t, r, Len(t) - min_size)
    ELSE [top |-> t, rest |-> r]

\* TopMap::clear
clear == [top |-> <<>>, rest |-> BTreeNew]

IsPanic(x) == DOMAIN x = {"panic", "key"}

\* --------------------------------------------------------------- the calls
Call(op, key, value, tag, ret, ret1) ==
    [op |-> op, key |-> key, value |-> value, tag |-> tag, ret |-> ret, ret1 |-> ret1]

NoCall == Call("none", 0, 0, "", None, None)

\* the caller is between two calls and the program has not panicked
Ready == last = NoCall /\ ~panicked

\* TopMap::new and BTreeMap::new
Init ==
    /\ size \in Sizes
    /\ top = <<>>
    /\ rest = BTreeNew
    /\ map1 = BTreeNew
    /\ last = NoCall
    /\ panicked = FALSE

Insert(key, value) ==
    /\ Ready
    /\ LET a == insert(top, rest, key, value)
       IN  /\ top' = a.top
           /\ rest' = a.rest
           /\ map1' = BTreeInsert(map1, key, value)
           /\ last' = Call("insert", key, value, index(top, key).tag, a.ret,
                           BTreeGet(map1, key))
           /\ panicked' = IsPanic(a.ret)
    /\ UNCHANGED size

Remove(key) ==
    /\ Ready
    /\ LET a == remove(top, rest, key)
       IN  /\ top' = a.top
           /\ rest' = a.rest
           /\ map1' = BTreeRemove(map1, key)
           /\ last' = Call("remove", key, 0, index(top, key).tag, a.ret,
                           BTreeGet(map1, key))
           /\ panicked' = IsPanic(a.ret)
    /\ UNCHANGED size

Get(key) ==
    /\ Ready
    /\ LET g == get(top, rest, key)
       IN  /\ last' = Call("get", key, 0, index(top, key).tag, g, BTreeGet(map1, key))
           /\ panicked' = IsPanic(g)
    /\ UNCHANGED <<size, top, rest, map1>>

OrInsert(key, default) ==
    /\ Ready
    /\ LET a == Entry_or_insert(entry(top, rest, key), rest, key, default)
           m == BTreeOrInsert(map1, key, default)
       IN  /\ top' = a.top
           /\ rest' = a.rest
           /\ map1' = m
           /\ last' = Call("or_insert", key, default, index(top, key).tag, a.ret,
                           Some(m[key]))
           /\ panicked' = IsPanic(a.ret)
    /\ UNCHANGED size

IndexOp(key) ==
    /\ Ready
    /\ LET g == Index_index(top, rest, key)
       IN  /\ last' = Call("index", key, 0, index(top, key).tag, g, BTreeGet(map1, key))
           /\ panicked' = IsPanic(g)
    /\ UNCHANGED <<size, top, rest, map1>>

IndexMutOp(key) ==
    /\ Ready
    /\ LET g == IndexMut_index_mut(top, rest, key)
       IN  /\ last' = Call("index_mut", key, 0, index(top, key).tag, g,
                           BTreeGet(map1, key))
           /\ panicked' = IsPanic(g)
    /\ UNCHANGED <<size, top, rest, map1>>

ShrinkToFit ==
    /\ Ready
    /\ LET a == shrink_to_fit(top, rest)
       IN  /\ top' = a.top
           /\ rest' = a.rest
    /\ last' = Call("shrink_to_fit", 0, 0, "", None, None)
    /\ UNCHANGED <<size, map1, panicked>>

Clear ==
    /\ Ready
    /\ top' = clear.top
    /\ rest' = clear.rest
    /\ map1' = BTreeNew
    /\ last' = Call("clear", 0, 0, "", None, None)
    /\ UNCHANGED <<size, panicked>>

\* the caller has compared or used the results of the call and goes on
Return ==
    /\ last # NoCall
    /\ ~panicked
    /\ last' = NoCall
    /\ UNCHANGED <<size, top, rest, map1, panicked>>

Next ==
    \/ \E key \in Keys, value \in Values : Insert(key, value)
    \/ \E key \in Keys : Remove(key)
    \/ \E key \in Keys : Get(key)
    \/ \E key \in Keys, default \in Values : OrInsert(key, default)
    \/ \E key \in Keys : IndexOp(key)
    \/ \E key \in Keys : IndexMutOp(key)
    \/ ShrinkToFit
    \/ Clear
    \/ Return

Spec == Init /\ [][Next]_vars

\* TopMap::entry, the handle dropped without or_insert or or_insert_with
EntryDrop(key) ==
    /\ Ready
    /\ LET e == entry(top, rest, key)
       IN  /\ top' = e.top
           /\ last' = Call("entry", key, 0, index(top, key).tag, None, None)
           /\ panicked' = (e.kind = "Panic")
    /\ UNCHANGED <<size, rest, map1>>

\* the calls of Next, and entry calls whose handle is dropped
NextEntry ==
    \/ Next
    \/ \E key \in Keys : EntryDrop(key)

SpecEntry == Init /\ [][NextEntry]_vars

\* map.entry(key).or_insert_with(default). A panic of the closure unwinds
\* through the call to the caller, who catches it and goes on using the map;
\* last.value is the value the closure returns, 0 when it panics
OrInsertWith(key, default) ==
    /\ Ready
    /\ LET a == Entry_or_insert_with(entry(top, rest, key), rest, key, default)
           m == BTreeOrInsertWith(map1, key, default)
       IN  /\ top' = a.top
           /\ rest' = a.rest
           /\ map1' = m.map
           /\ last' = Call("or_insert_with", key,
                           IF IsSome(default) THEN Unwrap(default) ELSE 0,
                           index(top, key).tag, a.ret, m.ret)
           /\ panicked' = (IsPanic(a.ret) /\ a.ret.panic # ClosurePanic)
    /\ UNCHANGED size

NextOrInsert == \/ Next \/ \E key \in Keys, default \in Closures : OrInsertWith(key, default)

SpecOrInsert == Init /\ [][NextOrInsert]_vars

\* tests::ITEMS and the capacity of the maps of tests::collect, insert and remove
ScenarioSize == 10
ITEMS ==
    (100 :> "a1") @@ (101 :> "a2") @@ (200 :> "b1") @@ (201 :> "b2") @@
    (300 :> "c1") @@ (301 :> "c2")

InitScenario ==
    /\ size = ScenarioSize
    /\ top = <<>>
    /\ rest = BTreeNew
    /\ map1 = BTreeNew
    /\ last = NoCall
    /\ panicked = FALSE

\* inserts of the items and removes of their keys and of -1, in any order
NextScenario ==
    \/ \E key \in DOMAIN ITEMS : Insert(key, ITEMS[key])
    \/ \E key \in (DOMAIN ITEMS) \cup {-1} : Remove(key)
    \/ Return

SpecScenario == InitScenario /\ [][NextScenario]_vars

\* ------------------------------------------- isize and the key distance
\* isize is modelled IsizeBits wide, two's complement
IsizeBits == 4
IsizeMin == -(2 ^ (IsizeBits - 1))
IsizeMax == 2 ^ (IsizeBits - 1) - 1
Isize == IsizeMin..IsizeMax

\* the value of the low IsizeBits bits of x, read as an isize
isize_wrap(x) == ((x - IsizeMin) % (2 ^ IsizeBits)) + IsizeMin
\* x as usize
as_usize(x) == x % (2 ^ IsizeBits)

\* overflow checks are on in a debug build and off in a release build
Builds == {"debug", "release"}
SubOverflow == "attempt to subtract with overflow"
NegOverflow == "attempt to negate with overflow"

\* a subtraction that saturates at the ends of isize
isize_sub_saturating(a, b, build) ==
    IF a - b > IsizeMax THEN Some(IsizeMax)
    ELSE IF a - b < IsizeMin THEN Some(IsizeMin)
    ELSE Some(a - b)

\* a - b on isize: Some(difference), or the panic of the overflow check
isize_sub(a, b, build) ==
    IF a - b \in Isize THEN Some(a - b)
    ELSE IF build = "debug" THEN Panic(SubOverflow, a)
    ELSE Some(isize_wrap(a - b))

\* -a on isize: Some(negation), or the panic of the overflow check
isize_neg(a, build) ==
    IF -a \in Isize THEN Some(-a)
    ELSE IF build = "debug" THEN Panic(NegOverflow, a)
    ELSE Some(isize_wrap(-a))

\* TopMap::index on isize keys: .offset is key - min_key as computed, .n the
\* usize carried by the classification
index_isize(t, key, build) ==
    IF t = <<>> THEN [tag |-> "OutsideTop", n |-> Some(0), offset |-> None]
    ELSE IF ~IsSome(t[1]) THEN [tag |-> "Panic", n |-> None, offset |-> Panic(TopFilled, key)]
    ELSE LET s == isize_sub(key, Unwrap(t[1])[1], build)
         IN  IF IsPanic(s) THEN [tag |-> "Panic", n |-> None, offset |-> s]
             ELSE LET i == Unwrap(s)
                  IN  IF IsSome(positive(i))
                      THEN IF i >= max_size THEN [tag |-> "Rest", n |-> Some(i), offset |-> s]
                           ELSE IF i >= Len(t)
                                THEN [tag |-> "OutsideTop", n |-> Some(i), offset |-> s]
                                ELSE [tag |-> "InsideTop", n |-> Some(i), offset |-> s]
                      ELSE LET m == isize_neg(i, build)
                           IN  IF IsPanic(m) THEN [tag |-> "Panic", n |-> m, offset |-> s]
                               ELSE [tag |-> "AboveTop", n |-> Some(as_usize(Unwrap(m))),
                                     offset |-> s]

\* a map holding one entry, whose key is any isize
InitOverflow ==
    /\ size \in 1..2
    /\ \E min_key \in Isize :
          /\ top = <<Some(<<min_key, 1>>)>>
          /\ map1 = [k \in {min_key} |-> 1]
    /\ rest = BTreeNew
    /\ last = NoCall
    /\ panicked = FALSE

\* the name of the call in last: the build is part of it
IndexCall(build) == IF build = "debug" THEN "index, debug" ELSE "index, release"

\* self.index(key), as get, get_mut, entry and remove call it first
IndexIsize(key, build) ==
    /\ Ready
    /\ LET i == index_isize(top, key, build)
       IN  /\ last' = Call(IndexCall(build), key, 0, i.tag, i.offset, i.n)
           /\ panicked' = (i.tag = "Panic")
    /\ UNCHANGED <<size, top, rest, map1>>

NextOverflow ==
    \/ \E key \in Isize, build \in Builds : IndexIsize(key, build)
    \/ Return

SpecOverflow == InitOverflow /\ [][NextOverflow]_vars

\* ------------------------------------ pushes onto a full FixedVecDeque
\* ensure_index: one of its push_back calls finds the buffer full
ensure_index_pushes_full(v, n) ==
    \E c \in 0..((n + 1) - Len(v) - 1) : Len(PushBackNone(v, c)) >= max_size

\* TopMap::insert_above_top: one of its push_front calls finds the buffer full
insert_above_top_pushes_full(t, r, distance) ==
    IF max_size >= distance
    THEN LET new_count == max_size - distance
             a == IF Len(t) >= new_count
                  THEN DrainBack(t, r, Len(t) - new_count)
                  ELSE [top |-> t, rest |-> r]
         IN  \E c \in 0..(distance - 1) : Len(PushFrontNone(a.top, c)) >= max_size
    ELSE Len(DrainBack(t, r, Len(t)).top) >= max_size

\* TopMap::entry, the arm Index::OutsideTop: ensure_index pushes onto a full buffer
entry_pushes_full(t, r, key) ==
    LET i == index(t, key)
    IN  /\ i.tag = "OutsideTop"
        /\ ~(IsSome(BTreeFirst(r)) /\ key >= Unwrap(BTreeFirst(r)))
        /\ ensure_index_pushes_full(t, i.n)

\* Entry::insert, or_insert and or_insert_with, the arm Entry::AboveTop
Entry_pushes_full(e, r) ==
    e.kind = "AboveTop" /\ insert_above_top_pushes_full(e.top, r, e.n)

\* the refill loop of TopMap::remove: one of its ensure_index calls pushes onto
\* a full buffer
RECURSIVE Refill_pushes_full(_, _, _)
Refill_pushes_full(t, r, min_top_key) ==
    IF ~IsSome(BTreeFirst(r)) THEN FALSE
    ELSE LET key == Unwrap(BTreeFirst(r))
             i == positive(KeyDistance(key, min_top_key))
         IN  IF ~IsSome(i) THEN FALSE
             ELSE IF Unwrap(i) >= min_size THEN FALSE
             ELSE \/ ensure_index_pushes_full(t, Unwrap(i))
                  \/ Refill_pushes_full(
                        SetSlot(ensure_index(t, Unwrap(i)), Unwrap(i), Some(<<key, r[key]>>)),
                        BTreeRemove(r, key), min_top_key)

\* TopMap::remove: the push_back of the promoted entry or a push of the refill
\* finds the buffer full
remove_pushes_full(t, r, key) ==
    LET i == index(t, key)
    IN  /\ i.tag = "InsideTop" /\ i.n = 0
        /\ LET t1 == PopFrontNone(PopFront(t))
               promote == t1 = <<>> /\ IsSome(BTreeFirst(r))
               rest_key == Unwrap(BTreeFirst(r))
               t2 == IF promote THEN PushBack(t1, Some(<<rest_key, r[rest_key]>>)) ELSE t1
               r2 == IF promote THEN BTreeRemove(r, rest_key) ELSE r
           IN  /\ Len(t1) <= min_size
               /\ \/ promote /\ Len(t1) >= max_size
                  \/ t2 # <<>> /\ Refill_pushes_full(t2, r2, Unwrap(t2[1])[1])

\* --------------------------- window lengths when no push is capped
\* The lengths the window would reach if push_back and push_front always added
\* a slot: they show whether the code itself, not the ring buffer, keeps the
\* window within its capacity.
Longer(a, b) == IF a >= b THEN a ELSE b

\* ensure_index: count pushes onto v
ensure_index_len(v, n) ==
    IF n + 1 >= Len(v) THEN Len(v) + ((n + 1) - Len(v)) ELSE Len(v)

\* TopMap::insert_above_top: the drain, distance - 1 pushes and the front push
insert_above_top_len(t, r, distance) ==
    IF max_size >= distance
    THEN LET new_count == max_size - distance
             a == IF Len(t) >= new_count
                  THEN DrainBack(t, r, Len(t) - new_count)
                  ELSE [top |-> t, rest |-> r]
         IN  Len(a.top) + (distance - 1) + 1
    ELSE Len(DrainBack(t, r, Len(t)).top) + 1

\* TopMap::entry: the arm Index::OutsideTop may lengthen the window
entry_len(t, r, key) ==
    LET i == index(t, key)
    IN  IF /\ i.tag = "OutsideTop"
           /\ ~(IsSome(BTreeFirst(r)) /\ key >= Unwrap(BTreeFirst(r)))
        THEN ensure_index_len(t, i.n)
        ELSE Len(t)

\* Entry::insert, or_insert and or_insert_with: the arm Entry::AboveTop shifts
Entry_len(e, r) ==
    IF e.kind = "AboveTop" THEN insert_above_top_len(e.top, r, e.n) ELSE Len(e.top)

\* the refill loop of TopMap::remove: the greatest length it reaches
RECURSIVE Refill_len(_, _, _)
Refill_len(t, r, min_top_key) ==
    IF ~IsSome(BTreeFirst(r)) THEN Len(t)
    ELSE LET key == Unwrap(BTreeFirst(r))
             i == positive(KeyDistance(key, min_top_key))
         IN  IF ~IsSome(i) THEN Len(t)
             ELSE IF Unwrap(i) >= min_size THEN Len(t)
             ELSE Longer(ensure_index_len(t, Unwrap(i)),
                         Refill_len(
                            SetSlot(ensure_index(t, Unwrap(i)), Unwrap(i), Some(<<key, r[key]>>)),
                            BTreeRemove(r, key), min_top_key))

\* TopMap::remove: the front arm pops, then may push the promoted entry and refill
remove_len(t, r, key) ==
    LET i == index(t, key)
    IN  IF i.tag = "InsideTop" /\ i.n = 0
        THEN LET t1 == PopFrontNone(PopFront(t))
                 promote == t1 = <<>> /\ IsSome(BTreeFirst(r))
                 rest_key == Unwrap(BTreeFirst(r))
                 t2 == IF promote THEN PushBack(t1, Some(<<rest_key, r[rest_key]>>)) ELSE t1
                 r2 == IF promote THEN BTreeRemove(r, rest_key) ELSE r
             IN  IF Len(t1) <= min_size
                 THEN Longer(IF promote THEN Len(t1) + 1 ELSE Len(t1),
                             IF t2 # <<>> THEN Refill_len(t2, r2, Unwrap(t2[1])[1])
                             ELSE Len(t2))
                 ELSE Len(t1)
        ELSE Len(t)

TypeOK ==
    /\ size \in Sizes
    /\ panicked \in BOOLEAN
    /\ DOMAIN rest \subseteq Keys
    /\ DOMAIN map1 \subseteq Keys

\* ------------------------------------------- what the properties speak of
Occupied == {p \in 1..Len(top) : IsSome(top[p])}
TopKeys == {Unwrap(top[p])[1] : p \in Occupied}
HasBase == top # <<>> /\ IsSome(top[1])
BaseKey == Unwrap(top[1])[1]
StoredKeys == TopKeys \cup DOMAIN rest
HasHole == \E p \in 1..Len(top) : top[p] = None

\* C1: every insert, remove and get returns the same value (or empty) from
\* TopMap as from the reference ordered map that received the same calls.
OracleEquivalence ==
    last.op \in {"insert", "remove", "get"} => last.ret = last.ret1

\* a front removal returned a value and left a new base key before a non-empty overflow
OracleEquivalenceWitness ==
    /\ last.op = "remove" /\ last.tag = "InsideTop" /\ IsSome(last.ret)
    /\ HasBase /\ last.key < BaseKey /\ Len(top) >= 2 /\ DOMAIN rest # {}

\* C2: iter() yields strictly increasing keys, and its (key, value) sequence is
\* the sorted contents of the reference map.
AscendingIteration ==
    LET s == iter(top, rest)
    IN  /\ \A p \in 1..Len(s), q \in 1..Len(s) : p < q => s[p][1] < s[q][1]
        /\ s = BTreeIter(map1)

\* iteration passes a hole of the window and goes on into the overflow
AscendingIterationWitness ==
    /\ HasHole /\ Cardinality(TopKeys) >= 2 /\ DOMAIN rest # {}
    /\ last.op = "insert"

\* C3: insert(k, v) immediately followed by get(k) returns v, wherever k was
\* classified at insertion time.
RoundTrip ==
    last.op = "insert" => get(top, rest, last.key) = Some(last.value)

\* the inserted key was inside the capacity, beyond the window length, and went to overflow
RoundTripWitness ==
    /\ last.op = "insert" /\ last.tag = "OutsideTop" /\ last.ret = None
    /\ last.key \in DOMAIN rest /\ rest[last.key] = last.value
    /\ HasBase /\ KeyDistance(last.key, BaseKey) < size

\* the other classifications of an inserted key
RoundTripWitnessAboveTop == last.op = "insert" /\ last.tag = "AboveTop" /\ Len(top) >= 2
RoundTripWitnessInsideTop == last.op = "insert" /\ last.tag = "InsideTop" /\ Len(top) >= 2
RoundTripWitnessOutsideTopVec ==
    last.op = "insert" /\ last.tag = "OutsideTop" /\ last.key \in TopKeys /\ Len(top) >= 2
RoundTripWitnessRest == last.op = "insert" /\ last.tag = "Rest"

\* C4: remove(k) of a key that is not stored returns empty and leaves the window
\* (slots and length) and the overflow as they were; a repeated call does the same.
IdempotentAbsence ==
    [][(last'.op = "remove" /\ last'.key \notin StoredKeys)
         => /\ last'.ret = None
            /\ top' = top
            /\ rest' = rest
            /\ remove(top', rest', last'.key) = [top |-> top, rest |-> rest, ret |-> None]]_vars

\* remove of the key of an empty slot inside the window came back empty
IdempotentAbsenceWitness ==
    /\ last.op = "remove" /\ last.tag = "InsideTop" /\ last.ret = None
    /\ DOMAIN rest # {}

\* C5: len() is the number of occupied window slots plus the number of overflow
\* entries, and equals the number of keys of the reference map.
LenMatches ==
    /\ len(top, rest) = Cardinality(Occupied) + Len(BTreeIter(rest))
    /\ len(top, rest) = Cardinality(DOMAIN map1)

\* entries in both stores, and a window with an empty slot that len() must not count
LenMatchesWitness ==
    /\ HasHole /\ DOMAIN rest # {} /\ len(top, rest) >= 3
    /\ last.op = "remove"

\* C6: map[k] and its mutable form abort with the key k exactly when get(k) is
\* empty, yield the value of get(k) otherwise, and change neither store.
IndexAborts ==
    [][last'.op \in {"index", "index_mut"}
         => /\ top' = top
            /\ rest' = rest
            /\ LET g == get(top, rest, last'.key)
               IN  IF g = None
                   THEN last'.ret = Panic(NoItem, last'.key) /\ panicked'
                   ELSE last'.ret = g /\ ~panicked']_vars

\* indexing a key that is absent from a populated map aborted
IndexAbortsWitness ==
    /\ last.op = "index" /\ last.ret = Panic(NoItem, last.key) /\ panicked
    /\ top # <<>> /\ DOMAIN rest # {}

\* indexing a stored key of the overflow yielded its value
IndexYieldsWitness ==
    /\ last.op = "index_mut" /\ last.key \in DOMAIN rest
    /\ last.ret = Some(rest[last.key])

\* The ring buffer never has more slots than its capacity: every slot is added
\* by PushBack or PushFront.
WindowBound == Len(top) <= size

\* C7: after every insert, remove, entry, or_insert, shrink_to_fit and clear the
\* window has at most max_size slots, and it is the code that keeps it so: the
\* lengths that entry, the Entry::AboveTop shift and remove would reach if no
\* push were capped by the ring buffer are at most max_size as well.
WindowBoundUncapped ==
    [][/\ Len(top') <= max_size
       /\ last'.op \in {"insert", "or_insert", "entry"}
            => entry_len(top, rest, last'.key) <= max_size
       /\ last'.op \in {"insert", "or_insert"}
            => Entry_len(entry(top, rest, last'.key), rest) <= max_size
       /\ last'.op = "remove"
            => remove_len(top, rest, last'.key) <= max_size
       /\ last'.op = "shrink_to_fit" => Len(top') <= Len(top)
       /\ last'.op = "clear" => Len(top') = 0]_vars

\* or_insert below the base key of a full window: the shift moved a slot to
\* the overflow, and the window has exactly max_size slots
WindowBoundUncappedWitness ==
    /\ last.op = "or_insert" /\ last.tag = "AboveTop"
    /\ max_size >= 2 /\ Len(top) = max_size
    /\ IsSome(top[2])
    /\ BaseKey + max_size \in DOMAIN rest

\* a dropped entry handle has lengthened the window to its last slot
WindowBoundUncappedWitnessEntry ==
    /\ last.op = "entry" /\ last.tag = "OutsideTop"
    /\ max_size >= 3 /\ Len(top) = max_size
    /\ HasBase /\ top[max_size] = None
    /\ last.key = BaseKey + max_size - 1

\* C8: no key is stored both in a window slot and in the overflow; an insert of
\* a key that lives in overflow at a distance inside the capacity replaces the
\* overflow entry and returns its previous value.
NoDuplicateKey ==
    /\ TopKeys \cap DOMAIN rest = {}
    /\ \A p \in Occupied, q \in Occupied : top[p][1][1] = top[q][1][1] => p = q
    /\ (last.op = "insert" /\ last.tag = "OutsideTop" /\ IsSome(last.ret1))
         => /\ last.ret = last.ret1
            /\ last.key \in DOMAIN rest
            /\ rest[last.key] = last.value

\* a stored overflow key at a distance inside the capacity was inserted again
NoDuplicateKeyWitness ==
    /\ last.op = "insert" /\ last.tag = "OutsideTop" /\ IsSome(last.ret)
    /\ HasBase /\ KeyDistance(last.key, BaseKey) < size

\* C9: with a non-empty window, the occupied slot at position p holds the key
\* base_key + p, base_key being the key of slot 0.
SlotAtOffset ==
    HasBase => \A p \in Occupied : Unwrap(top[p])[1] = BaseKey + (p - 1)

\* a shift kept an earlier entry, which now sits further back
SlotAtOffsetWitness ==
    /\ last.op = "insert" /\ last.tag = "AboveTop"
    /\ \E p \in Occupied : p >= 3

\* a front removal dropped leading empty slots and refilled behind the new base key
SlotAtOffsetWitnessRemove ==
    /\ last.op = "remove" /\ last.tag = "InsideTop" /\ IsSome(last.ret)
    /\ HasBase /\ last.key < BaseKey /\ \E p \in Occupied : p >= 3

\* C10 as stated: with a non-empty window every overflow key is at least the
\* full capacity away from the base key.
OverflowBeyondCapacity ==
    HasBase => \A k \in DOMAIN rest : KeyDistance(k, BaseKey) >= size

\* C10, amended: with a non-empty window every overflow key is at least the
\* window length and at least min_size (half the capacity) away from the base key.
OverflowBeyondWindow ==
    HasBase => \A k \in DOMAIN rest :
                  /\ KeyDistance(k, BaseKey) >= Len(top)
                  /\ KeyDistance(k, BaseKey) >= min_size

\* a front removal left an overflow key nearer than the capacity to the new base key
OverflowBeyondWindowWitness ==
    /\ last.op = "remove" /\ last.tag = "InsideTop" /\ IsSome(last.ret)
    /\ HasBase /\ \E k \in DOMAIN rest : KeyDistance(k, BaseKey) < size

\* C11: after every public operation (insert, remove, entry, or_insert,
\* shrink_to_fit, clear) the window is empty or its slot 0 is occupied, and no
\* later call fails the "top entry should be filled" expectation of the classifier.
FrontFilled ==
    /\ top = <<>> \/ IsSome(top[1])
    /\ ~(panicked /\ IsPanic(last.ret) /\ last.ret.panic = TopFilled)

\* the part of C11 that is about the calls other than a bare entry: checked under Spec
FrontFilledByCalls == top = <<>> \/ IsSome(top[1])

\* C12: every key of the window is less than every key of the overflow; with a
\* non-empty window the key of slot 0 is the least stored key, and a get or a
\* remove of a key below it reports absent, as the reference map does.
StoresOrdered ==
    /\ \A k \in TopKeys, j \in DOMAIN rest : k < j
    /\ HasBase => \A k \in StoredKeys : BaseKey <= k
    /\ (last.op \in {"get", "remove"} /\ last.tag = "AboveTop")
         => last.ret = None /\ last.ret1 = None

\* a get below the base key of a window that has entries behind it and an overflow
StoresOrderedWitness ==
    /\ last.op = "get" /\ last.tag = "AboveTop" /\ last.ret = None
    /\ Cardinality(TopKeys) >= 2 /\ DOMAIN rest # {}

\* remove(100) and then remove(101) on the map of tests::ITEMS return a1 and a2,
\* and leave the keys topKeys in the window and the keys restKeys in the overflow
ScenarioRemoves(topKeys, restKeys) ==
    /\ (/\ TopKeys = {100, 101} /\ DOMAIN rest = {200, 201, 300, 301}
        /\ last'.op = "remove" /\ last'.key = 100)
         => /\ last'.ret = Some("a1")
            /\ TopKeys' = {101} /\ DOMAIN rest' = {200, 201, 300, 301}
    /\ (/\ TopKeys = {101} /\ DOMAIN rest = {200, 201, 300, 301}
        /\ last'.op = "remove" /\ last'.key = 101)
         => /\ last'.ret = Some("a2")
            /\ TopKeys' = topKeys /\ DOMAIN rest' = restKeys

\* C13 as stated (capacity 10): after remove(100) and remove(101) the window
\* holds exactly {200} and the overflow {201, 300, 301}.
Scenario2Claimed == [][ScenarioRemoves({200}, {201, 300, 301})]_vars

\* C13, amended: after remove(100) and remove(101), which return a1 and a2, the
\* window holds {200, 201} and the overflow {300, 301}: the refill pulls 201,
\* whose offset 1 from the new base key 200 is below min_size = 5.
Scenario2 == [][ScenarioRemoves({200, 201}, {300, 301})]_vars

\* remove(101) has emptied the window, which was refilled from the overflow
Scenario2Witness ==
    /\ last.op = "remove" /\ last.key = 101 /\ last.ret = Some("a2")
    /\ TopKeys = {200, 201} /\ DOMAIN rest = {300, 301}
    /\ map1 = [k \in {200, 201, 300, 301} |-> ITEMS[k]]

\* the number of occupied slots of a window
OccupiedIn(t) == Cardinality({p \in 1..Len(t) : IsSome(t[p])})

\* a step that inserts the key below the base key of a full window, with overflow
InsertBelowFull ==
    /\ Len(top) = size /\ Occupied = 1..size
    /\ DOMAIN rest # {}
    /\ last'.op = "insert" /\ last'.key = BaseKey - 1

\* C14 as stated: insert(k, v) with k = base key - 1 on a full window with
\* overflow, followed by remove(k), returns v and leaves the number of occupied
\* window slots and the number of overflow entries as before the insert.
InsertRemoveRestoresCounts ==
    [][InsertBelowFull =>
        LET a == remove(top', rest', last'.key)
        IN  /\ a.ret = Some(last'.value)
            /\ OccupiedIn(a.top) = OccupiedIn(top)
            /\ Cardinality(DOMAIN a.rest) = Cardinality(DOMAIN rest)]_vars

\* C14, amended: insert(k, v) with k = base key - 1 on a full window with
\* overflow, followed by remove(k), returns v and restores len(); the entry the
\* insert moved to the overflow stays there, so the window has W - 1 occupied
\* slots and the overflow one entry more; only for W = 1 are both counts restored.
InsertRemoveKeepsEvicted ==
    [][InsertBelowFull =>
        LET a == remove(top', rest', last'.key)
        IN  /\ a.ret = Some(last'.value)
            /\ len(a.top, a.rest) = len(top, rest)
            /\ IF size = 1
               THEN /\ OccupiedIn(a.top) = 1
                    /\ Cardinality(DOMAIN a.rest) = Cardinality(DOMAIN rest)
               ELSE /\ OccupiedIn(a.top) = size - 1
                    /\ Cardinality(DOMAIN a.rest) = Cardinality(DOMAIN rest) + 1]_vars

\* the insert below the base key of a full window has moved the last slot to the
\* overflow, and the remove of that key does not pull it back
InsertRemoveKeepsEvictedWitness ==
    /\ last.op = "insert" /\ last.tag = "AboveTop" /\ last.ret = None
    /\ size >= 2 /\ Occupied = 1..size
    /\ last.key = BaseKey
    /\ BaseKey + size \in DOMAIN rest
    /\ Cardinality(DOMAIN rest) >= 2
    /\ LET a == remove(top, rest, last.key)
       IN  /\ a.ret = Some(last.value)
           /\ OccupiedIn(a.top) = size - 1
           /\ BaseKey + size \in DOMAIN a.rest

\* C15: entry(k).or_insert(d) and or_insert_with, d being the value the closure
\* returns, keep the value of a stored key and return it, store d for an absent
\* key and return it, leave the value of every other key as it was, and for k
\* below the base key take the shift path: k was not stored and the new slot 0
\* holds (k, d).  The property is about the calls that return a reference.
CreateOrKeep ==
    [][(last'.op \in {"or_insert", "or_insert_with"} /\ ~IsPanic(last'.ret)) =>
        LET k == last'.key
            d == last'.value
            old == get(top, rest, k)
        IN  /\ IsSome(old) => get(top', rest', k) = old /\ last'.ret = old
            /\ old = None => get(top', rest', k) = Some(d) /\ last'.ret = Some(d)
            /\ \A j \in Keys \ {k} : get(top', rest', j) = get(top, rest, j)
            /\ (HasBase /\ k < BaseKey)
                 => /\ last'.tag = "AboveTop"
                    /\ old = None
                    /\ top'[1] = Some(<<k, d>>)]_vars

\* or_insert_with on a key below the base key of a full window took the shift
\* path: the key is in slot 0 and the other keys are still stored
CreateOrKeepWitness ==
    /\ last.op = "or_insert_with" /\ last.tag = "AboveTop"
    /\ top[1] = Some(<<last.key, last.value>>)
    /\ last.ret = Some(last.value)
    /\ Len(top) = size /\ size >= 2 /\ DOMAIN rest # {}
    /\ Cardinality(StoredKeys) >= 3

\* or_insert on a stored key kept a value that is not the default
CreateOrKeepWitnessKept ==
    /\ last.op = "or_insert" /\ last.tag \in {"InsideTop", "Rest"}
    /\ IsSome(last.ret) /\ Unwrap(last.ret) # last.value
    /\ get(top, rest, last.key) = last.ret

\* C16: insert(k, v) with k below the base key by d >= 1, on a window of length
\* L and capacity W, returns None, puts (k, v) in slot 0, moves every occupied
\* slot at position p < W - d to position p + d and every occupied slot at
\* position p >= max(W - d, 0) to the overflow with its value, keeps what the
\* overflow held, and leaves the window length at min(L + d, W) when d <= W and
\* at 1 when d > W.
WindowShift ==
    [][(HasBase /\ last'.op = "insert" /\ last'.key < BaseKey) =>
        LET k == last'.key
            d == KeyDistance(BaseKey, k)
            L == Len(top)
            W == max_size
        IN  /\ last'.ret = None
            /\ top'[1] = Some(<<k, last'.value>>)
            /\ \A p \in 0..(L - 1) :
                  IsSome(Slot(top, p)) =>
                    IF p < W - d
                    THEN p + d < Len(top') /\ Slot(top', p + d) = Slot(top, p)
                    ELSE BTreeGet(rest', Unwrap(Slot(top, p))[1])
                            = Some(Unwrap(Slot(top, p))[2])
            /\ \A j \in DOMAIN rest : BTreeGet(rest', j) = BTreeGet(rest, j)
            /\ Len(top') = IF d <= W THEN (IF L + d <= W THEN L + d ELSE W) ELSE 1]_vars

\* an insert two below the base key has shifted one entry by two slots and moved
\* the entry behind it, which no longer fits, to the overflow
WindowShiftWitness ==
    /\ last.op = "insert" /\ last.tag = "AboveTop" /\ last.ret = None
    /\ top[1] = Some(<<last.key, last.value>>)
    /\ size >= 3 /\ Len(top) = size
    /\ top[2] = None /\ IsSome(top[3])
    /\ BaseKey + size \in DOMAIN rest

\* an insert further below the base key than the capacity has moved the whole
\* window to the overflow
WindowShiftWitnessFar ==
    /\ last.op = "insert" /\ last.tag = "AboveTop" /\ last.ret = None
    /\ Len(top) = 1 /\ size = 2
    /\ DOMAIN rest # {}
    /\ \A j \in DOMAIN rest : KeyDistance(j, BaseKey) > size

\* the window length left when slot 0 and the empty slots behind it are dropped
RemainingLength ==
    IF Occupied \ {1} = {} THEN 0
    ELSE Len(top) - ((CHOOSE p \in Occupied \ {1} : \A q \in Occupied \ {1} : p <= q) - 1)

\* C17: when remove takes the key in slot 0, overflow entries move to the window
\* only if the length left after dropping the leading empty slots is <= min_size;
\* then the moved keys are the lowest overflow keys, each is the new base key or
\* has an offset < min_size from the base key and sits at that offset with its
\* value, and afterwards the overflow is empty or all its keys have offsets
\* >= min_size; if the length left is > min_size the overflow is untouched.
RefillHysteresis ==
    [][(HasBase /\ last'.op = "remove" /\ last'.key = BaseKey) =>
        LET moved == DOMAIN rest \ DOMAIN rest'
        IN  /\ DOMAIN rest' \subseteq DOMAIN rest
            /\ \A j \in DOMAIN rest' : rest'[j] = rest[j]
            /\ moved # {} => RemainingLength <= min_size
            /\ RemainingLength > min_size => rest' = rest
            /\ RemainingLength <= min_size =>
                  /\ \A j \in moved, i \in DOMAIN rest' : j < i
                  /\ \A j \in moved :
                        /\ HasBase'
                        /\ j = BaseKey' \/ KeyDistance(j, BaseKey') < min_size
                        /\ KeyDistance(j, BaseKey') < Len(top')
                        /\ Slot(top', KeyDistance(j, BaseKey')) = Some(<<j, rest[j]>>)
                  /\ \/ DOMAIN rest' = {}
                     \/ /\ HasBase'
                        /\ \A i \in DOMAIN rest' : KeyDistance(i, BaseKey') >= min_size]_vars

\* a removal of the base key has left a window of at most min_size slots, with
\* two keys in it and the overflow starting at offset min_size or beyond
RefillHysteresisWitness ==
    /\ last.op = "remove" /\ last.tag = "InsideTop" /\ IsSome(last.ret)
    /\ HasBase /\ last.key < BaseKey
    /\ min_size >= 2 /\ Len(top) = min_size
    /\ Cardinality(TopKeys) >= 2
    /\ DOMAIN rest # {}
    /\ \A i \in DOMAIN rest : KeyDistance(i, BaseKey) >= min_size

\* a removal of the base key has left more than min_size slots and an overflow
RefillHysteresisWitnessNoRefill ==
    /\ last.op = "remove" /\ last.tag = "InsideTop" /\ IsSome(last.ret)
    /\ HasBase /\ last.key < BaseKey
    /\ min_size >= 1 /\ Len(top) > min_size
    /\ DOMAIN rest # {}

\* C18: shrink_to_fit leaves a window of at most min_size slots, moves exactly
\* the entries occupied at window positions >= min_size to the overflow, and
\* changes neither get(k) for any key k, nor len(), nor the iteration sequence.
ShrinkMovesOnly ==
    [][last'.op = "shrink_to_fit" =>
        LET moved == {p \in 0..(Len(top) - 1) : p >= min_size /\ IsSome(Slot(top, p))}
        IN  /\ Len(top') <= min_size
            /\ top' = SubSeq(top, 1, IF Len(top) <= min_size THEN Len(top) ELSE min_size)
            /\ DOMAIN rest' = DOMAIN rest \cup {Unwrap(Slot(top, p))[1] : p \in moved}
            /\ \A j \in DOMAIN rest : rest'[j] = rest[j]
            /\ \A p \in moved : rest'[Unwrap(Slot(top, p))[1]] = Unwrap(Slot(top, p))[2]
            /\ \A k \in Keys : get(top', rest', k) = get(top, rest, k)
            /\ len(top', rest') = len(top, rest)
            /\ iter(top', rest') = iter(top, rest)]_vars

\* shrink_to_fit has cut the window to min_size slots, and the overflow holds a
\* key at an offset inside the capacity and another beyond it
ShrinkMovesOnlyWitness ==
    /\ last.op = "shrink_to_fit"
    /\ HasBase /\ Len(top) = min_size
    /\ \E j \in DOMAIN rest : KeyDistance(j, BaseKey) < max_size
    /\ \E j \in DOMAIN rest : KeyDistance(j, BaseKey) >= max_size

\* a lookup result that is a value: neither None nor a panic
Found(x) == ~IsPanic(x) /\ x # None

\* C19: in every reachable state with a non-empty window, every overflow key has
\* an offset from the base key >= the window length, and get, get_mut and remove
\* find every stored key.
LookupInvariant ==
    /\ HasBase => \A j \in DOMAIN rest : KeyDistance(j, BaseKey) >= Len(top)
    /\ top # <<>> =>
          \A k \in StoredKeys :
              /\ Found(get(top, rest, k))
              /\ Found(get_mut(top, rest, k))
              /\ Found(remove(top, rest, k).ret)

\* C20 as stated: after any sequence of insert, remove, or_insert and
\* shrink_to_fit, an empty window means an empty overflow.
EmptyWindowEmptyOverflow == top = <<>> => DOMAIN rest = {}

\* C20, amended: a window is empty over a non-empty overflow only when
\* min_size = 0 (capacity 1), and it gets there only by shrink_to_fit, which then
\* moves the whole window to the overflow; every other call keeps an empty
\* window over an empty overflow, a front removal by promoting the least
\* overflow key to slot 0.
EmptinessCoupling ==
    [][(top' = <<>> /\ DOMAIN rest' # {}) =>
        /\ min_size = 0
        /\ last'.op = "shrink_to_fit" \/ (top = <<>> /\ DOMAIN rest # {})]_vars

\* a removal of the base key emptied the window, and the least overflow key, at
\* an offset beyond the capacity, was promoted to slot 0
EmptinessCouplingWitness ==
    /\ last.op = "remove" /\ last.tag = "InsideTop" /\ IsSome(last.ret)
    /\ min_size >= 1
    /\ HasBase /\ KeyDistance(BaseKey, last.key) >= max_size
    /\ DOMAIN rest # {}

\* with capacity 1, shrink_to_fit has emptied the window over a non-empty overflow
EmptinessCouplingWitnessShrink ==
    /\ last.op = "shrink_to_fit" /\ top = <<>> /\ DOMAIN rest # {}
    /\ min_size = 0

\* C21: no call pushes a slot onto the front or the back of the window while
\* its length equals the capacity: not the demand growth of ensure_index in
\* entry, not the shift of insert_above_top, not the promotion and the refill
\* of remove.
NoPushOnFull ==
    [][/\ last'.op \in {"insert", "or_insert", "entry"}
            => ~entry_pushes_full(top, rest, last'.key)
       /\ last'.op \in {"insert", "or_insert"}
            => ~Entry_pushes_full(entry(top, rest, last'.key), rest)
       /\ last'.op = "remove"
            => ~remove_pushes_full(top, rest, last'.key)]_vars

\* an insert two or more below the base key has pushed the window up to its
\* capacity, and every key of the reference map is still stored
NoPushOnFullWitness ==
    /\ last.op = "insert" /\ last.tag = "AboveTop"
    /\ size >= 3 /\ Len(top) = size
    /\ top[2] = None
    /\ DOMAIN rest # {}
    /\ StoredKeys = DOMAIN map1

\* an insert at the last offset of the capacity has grown the window to its
\* capacity by ensure_index
NoPushOnFullWitnessGrow ==
    /\ last.op = "insert" /\ last.tag = "OutsideTop"
    /\ size >= 3 /\ Len(top) = size
    /\ top[size] = Some(<<last.key, last.value>>)
    /\ StoredKeys = DOMAIN map1

\* a removal of the base key has pulled an overflow entry behind the window by
\* ensure_index
NoPushOnFullWitnessRefill ==
    /\ last.op = "remove" /\ last.tag = "InsideTop" /\ IsSome(last.ret)
    /\ HasBase /\ last.key < BaseKey
    /\ Len(top) = min_size /\ min_size >= 2 /\ IsSome(top[min_size])
    /\ StoredKeys = DOMAIN map1

\* C22: entry(k) whose handle is dropped stores nothing and changes nothing
\* observable, from any reachable state: no later get, insert or remove
\* aborts, and len(), iter() and get(j) for every key j return what they
\* returned before.
DroppedHandleFrame ==
    [][last'.op = "entry" =>
        /\ rest' = rest
        /\ len(top', rest') = len(top, rest)
        /\ iter(top', rest') = iter(top, rest)
        /\ \A j \in Keys :
              /\ ~IsPanic(get(top', rest', j))
              /\ \A v \in Values : ~IsPanic(insert(top', rest', j, v).ret)
              /\ ~IsPanic(remove(top', rest', j).ret)
              /\ get(top', rest', j) = get(top, rest, j)]_vars

\* C23: index computes key - base key in isize without saturation or range
\* restriction: the computed offset is the true difference exactly when the
\* difference fits in isize; otherwise the call panics on the overflow check or
\* the offset is the difference wrapped by 2^IsizeBits; the distance of a key
\* below the base is the negation of the computed offset, or a panic when the
\* negation does not fit.
OffsetOverflow ==
    last.op \in {IndexCall(build) : build \in Builds} =>
        LET d == last.key - BaseKey
            wraps == last.op = IndexCall("release")
        IN  /\ d \in Isize => ~IsPanic(last.ret) /\ last.ret = Some(d)
            /\ (d \notin Isize /\ ~wraps)
                 => IsPanic(last.ret) /\ last.ret.panic = SubOverflow
            /\ (d \notin Isize /\ wraps)
                 => /\ ~IsPanic(last.ret)
                    /\ last.ret # Some(d)
                    /\ last.ret \in {Some(d - 2 ^ IsizeBits), Some(d + 2 ^ IsizeBits)}
            /\ last.tag = "AboveTop"
                 => last.ret1 = Some(-Unwrap(last.ret))
            /\ (d = IsizeMin /\ ~wraps)
                 => /\ last.tag = "Panic"
                    /\ IsPanic(last.ret1) /\ last.ret1.panic = NegOverflow

\* in a release build a key above the base key, further than isize reaches,
\* got a negative offset and was classified below the base key
OffsetOverflowWitness ==
    /\ last.op = IndexCall("release")
    /\ last.key - BaseKey > IsizeMax
    /\ last.tag = "AboveTop"
    /\ Unwrap(last.ret) < 0

\* in a debug build the subtraction panicked
OffsetOverflowWitnessPanic ==
    /\ last.op = IndexCall("debug")
    /\ last.key - BaseKey \notin Isize
    /\ last.tag = "Panic" /\ panicked

====
